---- MODULE Spec2Model ----
(***************************************************************************)
(* Model of the Fedora CoreOS Cincinnati policy engine                     *)
(* (fcos-policy-engine/src/main.rs): the /v1/graph handler                 *)
(* pe_serve_graph, its metrics recording pe_record_metrics over the shared *)
(* Bloom filter, and compute_wariness.                                     *)
(*                                                                         *)
(* f64 values are modelled in fixed point: a finite value is an integer    *)
(* number of millionths (COMPUTED_MIN = 0.000001 is 1 unit), and NaN and   *)
(* the two infinities are separate values.  Strings that are parsed are    *)
(* sequences of one-character strings; strings that are only hashed are    *)
(* plain strings.                                                          *)
(***************************************************************************)
EXTENDS Integers, Sequences, FiniteSets, TLC

\* ------------------------------------------------------------- bounds

\* Number of requests (one handler invocation each).
NumProcs == 2
\* Largest digest of the hasher; stands for std::u64::MAX at reduced width.
DigestMax == 3
\* Number of bits of the Bloom filter (10 MiB in main(), reduced here).
NumBits == 3

Procs == 1..NumProcs
Digests == 0..DigestMax

\* ------------------------------------------------------------- f64

\* COMPUTED_MAX: f64 = 1.0, in millionths.
COMPUTED_MAX == 1000000
\* COMPUTED_MIN: f64 = 0.0 + 0.000_001, in millionths.
COMPUTED_MIN == 1

Fin(n) == [k |-> "fin", v |-> n]
NaN == [k |-> "nan", v |-> 0]
PInf == [k |-> "inf", v |-> 1]
NInf == [k |-> "inf", v |-> -1]

IsNaN(x) == x.k = "nan"
IsFinite(x) == x.k = "fin"

\* x < y on f64: false whenever either side is NaN.
FLt(x, y) ==
    IF IsNaN(x) \/ IsNaN(y) THEN FALSE
    ELSE IF x.k = "inf" THEN (x.v < 0 /\ ~(y.k = "inf" /\ y.v < 0))
    ELSE IF y.k = "inf" THEN y.v > 0
    ELSE x.v < y.v

FLe(x, y) == ~IsNaN(x) /\ ~IsNaN(y) /\ ~FLt(y, x)

\* f64::max: if one argument is NaN the other is returned.
FMax(x, y) == IF IsNaN(x) THEN y ELSE IF IsNaN(y) THEN x ELSE IF FLt(x, y) THEN y ELSE x

\* f64::min: if one argument is NaN the other is returned.
FMin(x, y) == IF IsNaN(x) THEN y ELSE IF IsNaN(y) THEN x ELSE IF FLt(y, x) THEN y ELSE x

\* ------------------------------------------------------------- Option<String>

Some(x) == [some |-> TRUE, v |-> x]
NoneStr == [some |-> FALSE, v |-> ""]
NoneChars == [some |-> FALSE, v |-> <<>>]

\* ------------------------------------------------------------- str::parse::<f64>

DigitChars == {"0", "1", "2", "3", "4", "5", "6", "7", "8", "9"}

DigitVal(c) ==
    CASE c = "0" -> 0 [] c = "1" -> 1 [] c = "2" -> 2 [] c = "3" -> 3 [] c = "4" -> 4
      [] c = "5" -> 5 [] c = "6" -> 6 [] c = "7" -> 7 [] c = "8" -> 8 [] c = "9" -> 9

RECURSIVE Pow10(_)
Pow10(n) == IF n = 0 THEN 1 ELSE 10 * Pow10(n - 1)

\* Number of decimal places kept by the fixed-point representation.
RECURSIVE Places(_)
Places(m) == IF m <= 1 THEN 0 ELSE 1 + Places(m \div 10)

\* The integer a sequence of digit characters denotes.
RECURSIVE DigitsValue(_)
DigitsValue(ds) ==
    IF ds = <<>> THEN 0
    ELSE 10 * DigitsValue(SubSeq(ds, 1, Len(ds) - 1)) + DigitVal(ds[Len(ds)])

\* The fraction a sequence of digit characters after the point denotes, in
\* millionths (further places are below the representation's resolution).
FracValue(ds) ==
    LET p == Places(COMPUTED_MAX)
        kept == IF Len(ds) > p THEN SubSeq(ds, 1, p) ELSE ds
    IN  DigitsValue(kept) * Pow10(p - Len(kept))

\* Position of the first "." of s, or 0.
PointAt(s) ==
    IF \E i \in 1..Len(s) : s[i] = "."
    THEN CHOOSE i \in 1..Len(s) : s[i] = "." /\ \A j \in 1..(i - 1) : s[j] # "."
    ELSE 0

ParseErr == [ok |-> FALSE, val |-> NaN]
ParseOk(x) == [ok |-> TRUE, val |-> x]

\* An unsigned decimal: digits, optionally a point and digits, with at least
\* one digit overall (exponents are not modelled).
ParseUnsigned(s) ==
    LET dot == PointAt(s)
        int == IF dot = 0 THEN s ELSE SubSeq(s, 1, dot - 1)
        frac == IF dot = 0 THEN <<>> ELSE SubSeq(s, dot + 1, Len(s))
        digits(t) == \A i \in 1..Len(t) : t[i] \in DigitChars
    IN  IF digits(int) /\ digits(frac) /\ Len(int) + Len(frac) > 0
        THEN ParseOk(Fin(DigitsValue(int) * COMPUTED_MAX + FracValue(frac)))
        ELSE ParseErr

\* <f64 as FromStr>::from_str: "NaN", "inf" and "-inf" parse successfully.
ParseF64(s) ==
    IF s = <<>> THEN ParseErr
    ELSE IF s = <<"N", "a", "N">> THEN ParseOk(NaN)
    ELSE IF s = <<"i", "n", "f">> \/ s = <<"+", "i", "n", "f">> THEN ParseOk(PInf)
    ELSE IF s = <<"-", "i", "n", "f">> THEN ParseOk(NInf)
    ELSE IF s[1] = "-"
         THEN LET r == ParseUnsigned(Tail(s))
              IN  IF r.ok THEN ParseOk(Fin(0 - r.val.v)) ELSE ParseErr
    ELSE IF s[1] = "+" THEN ParseUnsigned(Tail(s))
    ELSE ParseUnsigned(s)

\* ------------------------------------------------------------- state

VARIABLES
    pc,                      \* position of each request in pe_serve_graph
    query,                   \* GraphQuery of each request
    is_new,                  \* !population.maybe_contains(client_uuid) as read
    wariness,                \* let wariness
    cached_graph,            \* let cached_graph
    throttled_graph,         \* let throttled_graph
    final_graph,             \* let final_graph
    response,                \* what the handler returned
    population,              \* AppState.population: the bits set in the filter
    V1_GRAPH_INCOMING_REQS,  \* IntCounter
    UNIQUE_IDS,              \* IntCounter
    ROLLOUT_WARINESS,        \* Histogram: observations per bucket
    hashFn                   \* DefaultHasher as a function of the hashed string

vars == <<pc, query, is_new, wariness, cached_graph, throttled_graph, final_graph,
          response, population, V1_GRAPH_INCOMING_REQS, UNIQUE_IDS,
          ROLLOUT_WARINESS, hashFn>>

\* ------------------------------------------------------------- inputs

\* Client identifiers that requests carry.
Ids == {"", "a"}

\* Chars("1.5") as the parser reads it.
OverrideStrings ==
    { <<>>, <<"a", "b", "c">>, <<"-">>, <<".">>, <<"1", ".", "5">>,
      <<"-", "0", ".", "2">>, <<"0", ".", "5">>, <<"0">>, <<"1">>, <<".", "9", "5">>,
      <<"N", "a", "N">>, <<"i", "n", "f">>, <<"-", "i", "n", "f">> }

GraphQuery(b, s, r, n) == [basearch |-> b, stream |-> s, rollout_wariness |-> r, node_uuid |-> n]

UuidOptions == {NoneStr} \cup {Some(i) : i \in Ids}
OverrideOptions == {NoneChars} \cup {Some(o) : o \in OverrideStrings}

\* Queries of the concurrent specification: every kind of node_uuid, no override.
Queries ==
    { GraphQuery(Some("x86_64"), Some("stable"), NoneChars, n) : n \in UuidOptions }

\* Queries of the wariness specification: every override with every node_uuid.
WarinessQueries ==
    { GraphQuery(NoneStr, NoneStr, r, n) : r \in OverrideOptions, n \in UuidOptions }

\* Queries of the pipeline specification: overrides that choose the wariness.
PipelineQueries ==
    { GraphQuery(Some("x86_64"), Some("stable"), r, n) :
        r \in {NoneChars, Some(<<"0">>), Some(<<"0", ".", "5">>),
               Some(<<".", "9", "5">>), Some(<<"1", ".", "5">>)},
        n \in {NoneStr, Some("a")} }

\* ------------------------------------------------------------- update graphs

NoAnn == [some |-> FALSE, v |-> 0]
Ann(t) == [some |-> TRUE, v |-> t]

Node(i, a) == [id |-> i, t |-> a]
Edge(f, g, a) == [from |-> f, to |-> g, t |-> a]

EmptyGraph == [nodes |-> {}, edges |-> {}]

\* A -> B (threshold 0.0), B -> C (threshold 0.9): a release and the edge that
\* leads to it carry the release's threshold.
ScenarioGraph ==
    [nodes |-> {Node("A", NoAnn), Node("B", Ann(0)), Node("C", Ann(900000))},
     edges |-> {Edge("A", "B", Ann(0)), Edge("B", "C", Ann(900000))}]

NodeSets ==
    { {Node("A", NoAnn), Node("B", NoAnn), Node("C", NoAnn)},
      {Node("A", NoAnn), Node("B", Ann(0)), Node("C", Ann(900000))} }

EdgeCandidates ==
    { Edge("A", "B", Ann(0)), Edge("B", "C", Ann(900000)), Edge("C", "A", NoAnn),
      Edge("B", "A", Ann(500000)), Edge("A", "C", NoAnn) }

\* Graphs the backend may return in the pipeline specification.
PipelineGraphs ==
    {EmptyGraph} \cup { [nodes |-> ns, edges |-> es] : ns \in NodeSets, es \in SUBSET EdgeCandidates }

Unset == [set |-> FALSE, g |-> EmptyGraph]
Set(g) == [set |-> TRUE, g |-> g]

\* ------------------------------------------------------------- commons::policy

\* Whether an annotation hides its node or edge from a client of wariness w.
Hidden(a, w) == a.some /\ FLt(w, Fin(a.v))

\* policy::throttle_rollouts
throttle_rollouts(g, w) ==
    [nodes |-> {n \in g.nodes : ~Hidden(n.t, w)},
     edges |-> {e \in g.edges : ~Hidden(e.t, w)}]

\* Nodes of g with no outgoing edge.
DeadEnds(g) == {n \in g.nodes : ~\E e \in g.edges : e.from = n.id}

\* policy::filter_deadends: remove dead ends and their inbound edges until
\* none is left.
RECURSIVE filter_deadends(_)
filter_deadends(g) ==
    LET dead == {n.id : n \in DeadEnds(g)}
    IN  IF dead = {} THEN g
        ELSE filter_deadends([nodes |-> {n \in g.nodes : n.id \notin dead},
                              edges |-> {e \in g.edges : e.to \notin dead}])

\* ------------------------------------------------------------- hashing, filter

\* DefaultHasher over a string: hash(), then finish().
DefaultHasher(s) == hashFn[s]

\* The bits of the filter that a hash selects.
BitsOf(h) == {h % NumBits, (h + 1) % NumBits}

\* cbloom::Filter::maybe_contains
maybe_contains(bits, h) == BitsOf(h) \subseteq bits

\* cbloom::Filter::insert
insert(bits, h) == bits \cup BitsOf(h)

\* ------------------------------------------------------------- compute_wariness

\* (digest as f64) / (std::u64::MAX as f64)
Scaled(digest) == Fin((digest * COMPUTED_MAX) \div DigestMax)

\* Mutant: the lower clamp to COMPUTED_MIN is missing.
ComputedWarinessUnclamped(params) ==
    LET uuid == IF params.node_uuid.some THEN params.node_uuid.v ELSE ""
    IN  FMin(Scaled(DefaultHasher(uuid)), Fin(COMPUTED_MAX))

\* The wariness derived from the node_uuid (lines 157-173).
ComputedWariness(params) ==
    LET uuid == IF params.node_uuid.some THEN params.node_uuid.v ELSE ""
        digest == DefaultHasher(uuid)
    IN  FMin(FMax(Scaled(digest), Fin(COMPUTED_MIN)), Fin(COMPUTED_MAX))

\* Mutant: the override is used only for requests that carry no node_uuid.
compute_wariness_uuid_first(params) ==
    LET text == IF params.rollout_wariness.some THEN params.rollout_wariness.v ELSE <<>>
        parsed == ParseF64(text)
    IN  IF parsed.ok /\ ~params.node_uuid.some
        THEN FMin(FMax(parsed.val, Fin(0)), Fin(COMPUTED_MAX))
        ELSE ComputedWariness(params)

compute_wariness(params) ==
    LET text == IF params.rollout_wariness.some THEN params.rollout_wariness.v ELSE <<>>
        parsed == ParseF64(text)
    IN  IF parsed.ok
        THEN FMin(FMax(parsed.val, Fin(0)), Fin(COMPUTED_MAX))
        ELSE ComputedWariness(params)

\* prometheus::linear_buckets(0.0, 0.1, 11): the first bucket that holds w.
Bucket(w) == (w.v + 99999) \div 100000

\* ------------------------------------------------------------- pe_serve_graph

NoResponse == [status |-> "none", content_type |-> "", body |-> EmptyGraph]
ErrorResponse == [status |-> "error", content_type |-> "", body |-> EmptyGraph]
OkResponse(g) == [status |-> "ok", content_type |-> "application/json", body |-> g]

Init ==
    /\ pc = [p \in Procs |-> "idle"]
    /\ query = [p \in Procs |-> GraphQuery(NoneStr, NoneStr, NoneChars, NoneStr)]
    /\ is_new = [p \in Procs |-> FALSE]
    /\ wariness = [p \in Procs |-> Fin(0)]
    /\ cached_graph = [p \in Procs |-> Unset]
    /\ throttled_graph = [p \in Procs |-> Unset]
    /\ final_graph = [p \in Procs |-> Unset]
    /\ response = [p \in Procs |-> NoResponse]
    /\ population = {}
    /\ V1_GRAPH_INCOMING_REQS = 0
    /\ UNIQUE_IDS = 0
    /\ ROLLOUT_WARINESS = [b \in 0..10 |-> 0]
    /\ hashFn \in [Ids -> Digests]

\* Mutant: an empty node_uuid is treated like an absent one.
ReceiveSkipsEmpty(p, q) ==
    /\ pc[p] = "idle"
    /\ \A o \in Procs : o < p => pc[o] # "idle"
    /\ query' = [query EXCEPT ![p] = q]
    /\ V1_GRAPH_INCOMING_REQS' = V1_GRAPH_INCOMING_REQS + 1
    /\ pc' = [pc EXCEPT ![p] =
                 IF q.node_uuid.some /\ q.node_uuid.v # "" THEN "check" ELSE "wariness"]
    /\ UNCHANGED <<is_new, wariness, cached_graph, throttled_graph, final_graph,
                   response, population, UNIQUE_IDS, ROLLOUT_WARINESS, hashFn>>

\* The request arrives and pe_record_metrics counts it (lines 115, 182-184).
\* Requests take the slots in order.
Receive(p, q) ==
    /\ pc[p] = "idle"
    /\ \A o \in Procs : o < p => pc[o] # "idle"
    /\ query' = [query EXCEPT ![p] = q]
    /\ V1_GRAPH_INCOMING_REQS' = V1_GRAPH_INCOMING_REQS + 1
    /\ pc' = [pc EXCEPT ![p] = IF q.node_uuid.some THEN "check" ELSE "wariness"]
    /\ UNCHANGED <<is_new, wariness, cached_graph, throttled_graph, final_graph,
                   response, population, UNIQUE_IDS, ROLLOUT_WARINESS, hashFn>>

\* Mutant: the membership test always answers "absent".
MaybeContainsNever(p) ==
    /\ pc[p] = "check"
    /\ is_new' = [is_new EXCEPT ![p] = TRUE]
    /\ pc' = [pc EXCEPT ![p] = "insert"]
    /\ UNCHANGED <<query, wariness, cached_graph, throttled_graph, final_graph,
                   response, population, V1_GRAPH_INCOMING_REQS, UNIQUE_IDS,
                   ROLLOUT_WARINESS, hashFn>>

\* if !data.population.maybe_contains(client_uuid) (lines 185-188)
MaybeContains(p) ==
    /\ pc[p] = "check"
    /\ LET client_uuid == DefaultHasher(query[p].node_uuid.v)
           absent == ~maybe_contains(population, client_uuid)
       IN  /\ is_new' = [is_new EXCEPT ![p] = absent]
           /\ pc' = [pc EXCEPT ![p] = IF absent THEN "insert" ELSE "wariness"]
    /\ UNCHANGED <<query, wariness, cached_graph, throttled_graph, final_graph,
                   response, population, V1_GRAPH_INCOMING_REQS, UNIQUE_IDS,
                   ROLLOUT_WARINESS, hashFn>>

\* data.population.insert(client_uuid) (line 189)
Insert(p) ==
    /\ pc[p] = "insert"
    /\ population' = insert(population, DefaultHasher(query[p].node_uuid.v))
    /\ pc' = [pc EXCEPT ![p] = "count"]
    /\ UNCHANGED <<query, is_new, wariness, cached_graph, throttled_graph, final_graph,
                   response, V1_GRAPH_INCOMING_REQS, UNIQUE_IDS, ROLLOUT_WARINESS,
                   hashFn>>

\* UNIQUE_IDS.inc() (line 190)
IncUnique(p) ==
    /\ pc[p] = "count"
    /\ UNIQUE_IDS' = UNIQUE_IDS + 1
    /\ pc' = [pc EXCEPT ![p] = "wariness"]
    /\ UNCHANGED <<query, is_new, wariness, cached_graph, throttled_graph, final_graph,
                   response, population, V1_GRAPH_INCOMING_REQS, ROLLOUT_WARINESS,
                   hashFn>>

\* let wariness = compute_wariness(&query); ROLLOUT_WARINESS.observe(wariness);
\* then the fetch is started (lines 125-128).
ComputeWariness(p) ==
    /\ pc[p] = "wariness"
    /\ LET w == compute_wariness(query[p])
       IN  /\ wariness' = [wariness EXCEPT ![p] = w]
           /\ ROLLOUT_WARINESS' = [ROLLOUT_WARINESS EXCEPT ![Bucket(w)] = @ + 1]
    /\ pc' = [pc EXCEPT ![p] = "fetch"]
    /\ UNCHANGED <<query, is_new, cached_graph, throttled_graph, final_graph, response,
                   population, V1_GRAPH_INCOMING_REQS, UNIQUE_IDS, hashFn>>

\* utils::fetch_graph_from_gb(stream, basearch).await returns a graph (line 128).
FetchOk(p, g) ==
    /\ pc[p] = "fetch"
    /\ cached_graph' = [cached_graph EXCEPT ![p] = Set(g)]
    /\ pc' = [pc EXCEPT ![p] = "throttle"]
    /\ UNCHANGED <<query, is_new, wariness, throttled_graph, final_graph, response,
                   population, V1_GRAPH_INCOMING_REQS, UNIQUE_IDS, ROLLOUT_WARINESS,
                   hashFn>>

\* utils::fetch_graph_from_gb(...).await? fails: the handler returns the error
\* (line 128).
FetchErr(p) ==
    /\ pc[p] = "fetch"
    /\ response' = [response EXCEPT ![p] = ErrorResponse]
    /\ pc' = [pc EXCEPT ![p] = "done"]
    /\ UNCHANGED <<query, is_new, wariness, cached_graph, throttled_graph, final_graph,
                   population, V1_GRAPH_INCOMING_REQS, UNIQUE_IDS, ROLLOUT_WARINESS,
                   hashFn>>

\* Mutant: the fetched graph is passed on unthrottled.
ThrottleSkipped(p) ==
    /\ pc[p] = "throttle"
    /\ throttled_graph' = [throttled_graph EXCEPT ![p] = Set(cached_graph[p].g)]
    /\ pc' = [pc EXCEPT ![p] = "deadends"]
    /\ UNCHANGED <<query, is_new, wariness, cached_graph, final_graph, response,
                   population, V1_GRAPH_INCOMING_REQS, UNIQUE_IDS, ROLLOUT_WARINESS,
                   hashFn>>

\* let throttled_graph = policy::throttle_rollouts(cached_graph, wariness) (line 130)
Throttle(p) ==
    /\ pc[p] = "throttle"
    /\ throttled_graph' =
           [throttled_graph EXCEPT ![p] = Set(throttle_rollouts(cached_graph[p].g, wariness[p]))]
    /\ pc' = [pc EXCEPT ![p] = "deadends"]
    /\ UNCHANGED <<query, is_new, wariness, cached_graph, final_graph, response,
                   population, V1_GRAPH_INCOMING_REQS, UNIQUE_IDS, ROLLOUT_WARINESS,
                   hashFn>>

\* Mutant: dead ends are removed in a single round.
FilterDeadendsOneRound(p) ==
    /\ pc[p] = "deadends"
    /\ LET g == throttled_graph[p].g
           dead == {n.id : n \in DeadEnds(g)}
       IN  final_graph' = [final_graph EXCEPT ![p] =
                              Set([nodes |-> {n \in g.nodes : n.id \notin dead},
                                   edges |-> {e \in g.edges : e.to \notin dead}])]
    /\ pc' = [pc EXCEPT ![p] = "respond"]
    /\ UNCHANGED <<query, is_new, wariness, cached_graph, throttled_graph, response,
                   population, V1_GRAPH_INCOMING_REQS, UNIQUE_IDS, ROLLOUT_WARINESS,
                   hashFn>>

\* let final_graph = policy::filter_deadends(throttled_graph) (line 131)
FilterDeadends(p) ==
    /\ pc[p] = "deadends"
    /\ final_graph' = [final_graph EXCEPT ![p] = Set(filter_deadends(throttled_graph[p].g))]
    /\ pc' = [pc EXCEPT ![p] = "respond"]
    /\ UNCHANGED <<query, is_new, wariness, cached_graph, throttled_graph, response,
                   population, V1_GRAPH_INCOMING_REQS, UNIQUE_IDS, ROLLOUT_WARINESS,
                   hashFn>>

\* Mutant: the throttled graph is serialized instead of the final one.
RespondThrottled(p) ==
    /\ pc[p] = "respond"
    /\ response' = [response EXCEPT ![p] = OkResponse(throttled_graph[p].g)]
    /\ pc' = [pc EXCEPT ![p] = "done"]
    /\ UNCHANGED <<query, is_new, wariness, cached_graph, throttled_graph, final_graph,
                   population, V1_GRAPH_INCOMING_REQS, UNIQUE_IDS, ROLLOUT_WARINESS,
                   hashFn>>

\* The JSON of final_graph is returned with status 200 (lines 133-138).
Respond(p) ==
    /\ pc[p] = "respond"
    /\ response' = [response EXCEPT ![p] = OkResponse(final_graph[p].g)]
    /\ pc' = [pc EXCEPT ![p] = "done"]
    /\ UNCHANGED <<query, is_new, wariness, cached_graph, throttled_graph, final_graph,
                   population, V1_GRAPH_INCOMING_REQS, UNIQUE_IDS, ROLLOUT_WARINESS,
                   hashFn>>

\* ------------------------------------------------------------- specifications

InFlight(p) == pc[p] \notin {"idle", "done"}

\* Requests served concurrently by the workers of the HTTP server.
Next ==
    \E p \in Procs :
        \/ \E q \in Queries : Receive(p, q)
        \/ MaybeContains(p)
        \/ Insert(p)
        \/ IncUnique(p)
        \/ ComputeWariness(p)
        \/ FetchOk(p, ScenarioGraph)
        \/ FetchErr(p)
        \/ Throttle(p)
        \/ FilterDeadends(p)
        \/ Respond(p)

Spec == Init /\ [][Next]_vars

\* Requests handled one after another: a request is received only when no
\* other is in flight.
NextSeq ==
    \E p \in Procs :
        \/ \E q \in Queries : (\A o \in Procs : ~InFlight(o)) /\ Receive(p, q)
        \/ MaybeContains(p)
        \/ Insert(p)
        \/ IncUnique(p)
        \/ ComputeWariness(p)
        \/ FetchOk(p, ScenarioGraph)
        \/ FetchErr(p)
        \/ Throttle(p)
        \/ FilterDeadends(p)
        \/ Respond(p)

SpecSeq == Init /\ [][NextSeq]_vars

\* One request with any override and any node_uuid.
NextWariness ==
    \/ \E q \in WarinessQueries : Receive(1, q)
    \/ MaybeContains(1)
    \/ Insert(1)
    \/ IncUnique(1)
    \/ ComputeWariness(1)
    \/ FetchOk(1, ScenarioGraph)
    \/ FetchErr(1)
    \/ Throttle(1)
    \/ FilterDeadends(1)
    \/ Respond(1)

SpecWariness == Init /\ [][NextWariness]_vars

\* One request through the pipeline, over every graph of PipelineGraphs.
NextPipeline ==
    \/ \E q \in PipelineQueries : Receive(1, q)
    \/ MaybeContains(1)
    \/ Insert(1)
    \/ IncUnique(1)
    \/ ComputeWariness(1)
    \/ \E g \in PipelineGraphs : FetchOk(1, g)
    \/ FetchErr(1)
    \/ Throttle(1)
    \/ FilterDeadends(1)
    \/ Respond(1)

SpecPipeline == Init /\ [][NextPipeline]_vars

\* ------------------------------------------------------------- properties

\* How far a request has come.
Rank(s) ==
    CASE s = "idle" -> 0 [] s = "check" -> 1 [] s = "insert" -> 2 [] s = "count" -> 3
      [] s = "wariness" -> 4 [] s = "fetch" -> 5 [] s = "throttle" -> 6
      [] s = "deadends" -> 7 [] s = "respond" -> 8 [] s = "done" -> 9

Received(p) == pc[p] # "idle"
HasUuid(p) == Received(p) /\ query[p].node_uuid.some
\* The membership test of request p has been made.
Checked(p) == HasUuid(p) /\ Rank(pc[p]) >= 2
\* pe_record_metrics has returned for request p.
Recorded(p) == Received(p) /\ Rank(pc[p]) >= 4
ClientHash(p) == DefaultHasher(query[p].node_uuid.v)

\* An earlier request carried the same node_uuid.
SameUuidEarlier(p) ==
    \E o \in Procs : o < p /\ HasUuid(o) /\ query[o].node_uuid = query[p].node_uuid

\* The bits of p's hash were all set by earlier requests with other identifiers.
FalsePositive(p) ==
    /\ ~SameUuidEarlier(p)
    /\ BitsOf(ClientHash(p)) \subseteq
           UNION {BitsOf(ClientHash(o)) : o \in {r \in Procs : r < p /\ HasUuid(r)}}

\* C1 as stated: handled one after another, the first request carrying a
\* node_uuid is always recorded as new and counted, every later one never is,
\* so the unique-client counter is the number of distinct node_uuid values
\* recorded.
C1_FirstAlwaysNew ==
    /\ \A p \in Procs : Checked(p) => (is_new[p] <=> ~SameUuidEarlier(p))
    /\ UNIQUE_IDS =
           Cardinality({query[p].node_uuid.v : p \in {r \in Procs : HasUuid(r) /\ Recorded(r)}})

\* C1 amended: handled one after another, a later request carrying the same
\* node_uuid is never recorded as new and never counted; the first request
\* carrying a node_uuid is recorded as new and counted exactly when the filter
\* does not already answer for its hash (no false positive from earlier, other
\* identifiers); the very first request of a fresh tracker is always new; and
\* the counter is the number of requests recorded as new, at most one per
\* node_uuid.
C1_FirstNewUnlessFalsePositive ==
    /\ \A p \in Procs : Checked(p) =>
           /\ SameUuidEarlier(p) => ~is_new[p]
           /\ ~SameUuidEarlier(p) => (is_new[p] <=> ~FalsePositive(p))
           /\ p = 1 => is_new[p]
    /\ UNIQUE_IDS = Cardinality({p \in Procs : HasUuid(p) /\ Recorded(p) /\ is_new[p]})
    /\ \A p, o \in Procs :
           (p # o /\ HasUuid(p) /\ HasUuid(o) /\ Recorded(p) /\ Recorded(o)
              /\ query[p].node_uuid = query[o].node_uuid) => ~(is_new[p] /\ is_new[o])

\* Two requests with the same node_uuid were handled in sequence on a fresh
\* tracker and the counter stands at one.
C1_Witness ==
    /\ pc[1] = "done" /\ pc[2] = "done"
    /\ HasUuid(1) /\ query[1].node_uuid = query[2].node_uuid
    /\ is_new[1] /\ ~is_new[2]
    /\ UNIQUE_IDS = 1

\* C2: under concurrent requests at most one request per identifier hash
\* observes the identifier as new, and the unique-client counter never exceeds
\* the number of distinct identifier hashes received.
C2_AtMostOncePerHash ==
    /\ \A p, o \in Procs :
           (p # o /\ Checked(p) /\ Checked(o) /\ ClientHash(p) = ClientHash(o))
               => ~(is_new[p] /\ is_new[o])
    /\ UNIQUE_IDS <= Cardinality({ClientHash(p) : p \in {r \in Procs : HasUuid(r)}})

\* C10: every step that receives a request adds exactly one to the
\* incoming-request counter and no other step changes it (so a failing fetch
\* does not); no step of a request without node_uuid changes the population
\* tracker or the unique-client counter; a request with a node_uuid, the
\* empty one included, goes through the membership test, and once recorded its
\* hash is in the tracker.
C10_Step ==
    /\ V1_GRAPH_INCOMING_REQS' =
           V1_GRAPH_INCOMING_REQS + Cardinality({p \in Procs : pc[p] = "idle" /\ pc'[p] # "idle"})
    /\ \A p \in Procs :
           (pc'[p] # pc[p] /\ ~query'[p].node_uuid.some)
               => (population' = population /\ UNIQUE_IDS' = UNIQUE_IDS)
    /\ \A p \in Procs :
           (pc[p] = "idle" /\ pc'[p] # "idle" /\ query'[p].node_uuid.some) => pc'[p] = "check"
    /\ \A p \in Procs :
           (query'[p].node_uuid.some /\ Rank(pc'[p]) >= 4)
               => BitsOf(DefaultHasher(query'[p].node_uuid.v)) \subseteq population'

\* C10: every step of every behaviour is a C10_Step: one count per request
\* received, and no effect on the tracker or the unique-client counter from a
\* request without node_uuid.
C10_CountersFrame == [][C10_Step]_vars

\* A request without node_uuid ended in a failed fetch beside a recorded
\* request with the empty node_uuid: two requests counted, one unique client.
C10_Witness ==
    /\ pc[1] = "done" /\ response[1].status = "error" /\ ~query[1].node_uuid.some
    /\ HasUuid(2) /\ query[2].node_uuid.v = "" /\ Recorded(2) /\ is_new[2]
    /\ V1_GRAPH_INCOMING_REQS = 2
    /\ UNIQUE_IDS = 1
    /\ population = BitsOf(DefaultHasher(""))

\* The wariness of request p has been computed.
HasWariness(p) == Rank(pc[p]) >= 5
OverrideText(p) == IF query[p].rollout_wariness.some THEN query[p].rollout_wariness.v ELSE <<>>
Zero == Fin(0)
One == Fin(COMPUTED_MAX)

\* C3: without an override the wariness is in (0.0, 1.0], never 0.0, for
\* every node_uuid, the empty and the absent one included; with an override
\* that parses it is in [0.0, 1.0]; "1.5" gives 1.0 and "-0.2" gives 0.0.
C3_Range ==
    \A p \in Procs : HasWariness(p) =>
        /\ ~query[p].rollout_wariness.some =>
               (IsFinite(wariness[p]) /\ FLt(Zero, wariness[p]) /\ FLe(wariness[p], One))
        /\ ParseF64(OverrideText(p)).ok =>
               (IsFinite(wariness[p]) /\ FLe(Zero, wariness[p]) /\ FLe(wariness[p], One))
        /\ OverrideText(p) = <<"1", ".", "5">> => wariness[p] = One
        /\ OverrideText(p) = <<"-", "0", ".", "2">> => wariness[p] = Zero

\* A request without override whose identifier hashes to digest 0 got the
\* minimum just above zero.
C3_Witness ==
    /\ HasWariness(1)
    /\ ~query[1].rollout_wariness.some
    /\ DefaultHasher(query[1].node_uuid.v) = 0
    /\ wariness[1] = Fin(COMPUTED_MIN)

\* The override of request p read as a number (NaN is not one).
NumericOverride(p) == ParseF64(OverrideText(p)).ok /\ ~IsNaN(ParseF64(OverrideText(p)).val)

\* C4: with a numeric override the wariness is the override clamped to
\* [0.0, 1.0], and it is what any other node_uuid, or none, would get with the
\* same override.
C4_OverridePrecedence ==
    \A p \in Procs : (HasWariness(p) /\ NumericOverride(p)) =>
        LET x == ParseF64(OverrideText(p)).val
        IN  /\ FLt(x, Zero) => wariness[p] = Zero
            /\ FLt(One, x) => wariness[p] = One
            /\ (FLe(Zero, x) /\ FLe(x, One)) => wariness[p] = x
            /\ \A n \in UuidOptions :
                   wariness[p] = compute_wariness([query[p] EXCEPT !.node_uuid = n])

\* A request with override "1.5" and a node_uuid whose own wariness is not 1.0
\* got 1.0.
C4_Witness ==
    /\ HasWariness(1)
    /\ OverrideText(1) = <<"1", ".", "5">>
    /\ query[1].node_uuid = Some("a")
    /\ ComputedWariness(query[1]) # One
    /\ wariness[1] = One

\* C5: an override that is absent, unparsable or not finite (NaN, infinity)
\* is not used: the wariness is the one derived from the node_uuid.
C5_FallbackUnlessFinite ==
    \A p \in Procs : HasWariness(p) =>
        LET r == ParseF64(OverrideText(p))
        IN  (~query[p].rollout_wariness.some \/ ~r.ok \/ ~IsFinite(r.val))
                => wariness[p] = ComputedWariness(query[p])

\* ------------------------------------------------------------- pipeline properties

Subgraph(a, b) == a.nodes \subseteq b.nodes /\ a.edges \subseteq b.edges

\* Wariness values around the thresholds of the graphs.
WarinessSamples == {Fin(n) : n \in {0, COMPUTED_MIN, 499999, 500000, 899999, 900000, COMPUTED_MAX}}

\* C6: the throttled graph is a subgraph of the fetched one; a node or edge
\* is removed exactly when it is annotated with a threshold above the
\* wariness, so unannotated ones stay; and a higher wariness keeps a
\* supergraph, a lower one a subgraph.
C6_ThrottleMonotonic ==
    \A p \in Procs : throttled_graph[p].set =>
        LET g == cached_graph[p].g
            r == throttled_graph[p].g
            w == wariness[p]
        IN  /\ Subgraph(r, g)
            /\ \A n \in g.nodes : n \notin r.nodes <=> (n.t.some /\ FLt(w, Fin(n.t.v)))
            /\ \A e \in g.edges : e \notin r.edges <=> (e.t.some /\ FLt(w, Fin(e.t.v)))
            /\ \A x \in WarinessSamples :
                   /\ FLe(w, x) => Subgraph(r, throttle_rollouts(g, x))
                   /\ FLe(x, w) => Subgraph(throttle_rollouts(g, x), r)
            /\ \A x, y \in WarinessSamples :
                   FLe(x, y) => /\ Subgraph(throttle_rollouts(g, x), throttle_rollouts(g, y))
                                /\ Subgraph(throttle_rollouts(g, y), g)

\* Throttling removed an annotated edge and node and kept an annotated edge,
\* an unannotated edge and an unannotated node.
C6_Witness ==
    /\ throttled_graph[1].set
    /\ \E e \in cached_graph[1].g.edges : e.t.some /\ e \notin throttled_graph[1].g.edges
    /\ \E n \in cached_graph[1].g.nodes : n.t.some /\ n \notin throttled_graph[1].g.nodes
    /\ \E e \in throttled_graph[1].g.edges : e.t.some /\ e.t.v > 0
    /\ \E e \in throttled_graph[1].g.edges : ~e.t.some
    /\ \E n \in throttled_graph[1].g.nodes : ~n.t.some

Scenario(p) ==
    /\ pc[p] = "done"
    /\ response[p].status = "ok"
    /\ cached_graph[p].g = ScenarioGraph
    /\ wariness[p] = Fin(500000)

ScenarioThrottled ==
    [nodes |-> {Node("A", NoAnn), Node("B", Ann(0))}, edges |-> {Edge("A", "B", Ann(0))}]

====
